---- MODULE Spec2Model ----
(***************************************************************************)
(* Push-to-talk voice client (pi-voice-client).                            *)
(*                                                                         *)
(* Spec      : the session controller (main.py) with the transport client  *)
(*             state it drives (webrtc_client.py) and the capture side of  *)
(*             the audio handler (audio_handler.py).  The asyncio event    *)
(*             loop is a FIFO of scheduled coroutines; the button thread   *)
(*             and the data-channel callbacks interleave with it.          *)
(* SpecAudio : the playback side of the audio handler: play_audio on the   *)
(*             receive-loop side and the output device callback on the     *)
(*             audio thread, for every frame count the device may ask for. *)
(* SpecReslice : the same, with the stream as _start_playback opens it.    *)
(* SpecLifecycle : starting and stopping playback.                         *)
(* SpecFaults : playback with a callback whose try block may raise.        *)
(* SpecButton : the debounce of the button, one step per raw edge.         *)
(* SpecRtc   : the transport client on its own: connect(), cleanup(), the  *)
(*             track handler, the receive-loop tasks and send_audio.       *)
(* SpecEvents : the transport client with its data channel and send_event. *)
(* SpecRxFair : connections and receive loops, every runnable task run.    *)
(* SpecMic   : turns of the controller with the capture callback and the   *)
(*             sender of the microphone track.                             *)
(* SpecRateLimit : the sliding-window rate limiter of the backend.         *)
(* SpecDownmix : the int16 branch of the frame conversion, frame by frame. *)
(***************************************************************************)
EXTENDS Integers, Sequences, FiniteSets, TLC

VARIABLES
    \* ---- VoiceClientApp (main.py) ----
    main_pc,                 \* position of run()/initialize()/connect()
    loop,                    \* self.loop is set
    components,              \* audio handler, webrtc client, button handler exist
    is_running,
    is_recording,
    current_session_active,
    response_text,           \* accumulator, a sequence of deltas
    exit_status,             \* process exit status, -1 while running
    exit_cause,              \* why run() left its loop
    \* ---- asyncio event loop ----
    ready,                   \* FIFO of coroutines scheduled with run_coroutine_threadsafe
    suspended_starts,        \* _start_recording coroutines suspended in start_session()
    \* ---- ButtonHandler ----
    is_pressed,
    \* ---- WebRTCClient (webrtc_client.py) ----
    is_connected,
    peer_connection,
    data_channel,            \* "none" | "connecting" | "open" | "closed" (readyState)
    microphone_track,
    audio_receive_task,
    ephemeral_key,
    \* ---- AudioHandler capture side ----
    ah_is_recording,
    input_stream,
    open_inputs,             \* input streams opened and not closed
    \* ---- environment and observation ----
    transport_failed,        \* the peer connection has failed for good
    n_presses,
    n_events,
    last,                    \* the step just taken and the state it was taken in
    \* ---- AudioHandler playback side (audio_handler.py) ----
    playback_queue,          \* queue.Queue of byte chunks
    is_playing,
    output_stream,           \* "none" | "open": self.output_stream
    stream_active,           \* the device layer is invoking the output callback
    open_streams,            \* output streams open at the device layer
    empty_callback_count,
    write_count,
    pa_pc,                   \* position of play_audio on the receive-loop side
    pa_rest,                 \* bytes of the buffer not yet put on the queue
    cb_pc,                   \* position of _output_callback on the audio thread
    cb_chunk,                \* chunk the running callback took from the queue
    cb_frames,               \* frame_count of the running callback
    cb_ret,                  \* what the last callback returned
    device_frames,           \* frame counts the device layer asks the callback for
    enqueued,                \* bytes play_audio took since the queue was last cleared
    played,                  \* bytes returned to the device since then, padding excluded
    rets,                    \* <<length, padding>> of every chunk returned since then
    buf_lens,                \* lengths of the buffers play_audio took since then
    n_plays,
    run_empty,               \* consecutive empty callbacks of the current stream
    run_chunks,              \* chunks the current stream has dequeued
    callback_faults,         \* whether the body of the output callback may raise
    sample_counts,           \* lengths, in samples, of the buffers play_audio is given
    n_tests,                 \* calls of test_playback
    n_stops,                 \* calls of stop_playback
    stop_raised,             \* the device raised in the last stop_playback
    \* ---- ButtonHandler._edge_callback (button_handler.py) ----
    current_time,            \* time.time() at the latest raw edge, in ticks
    last_state_change_time,
    last_state,              \* "HIGH" | "LOW": level read at the last accepted edge
    pin,                     \* level the latest raw edge went to
    edge,                    \* what the latest _edge_callback did
    last_event,              \* the last of on_press / on_release that was called
    true_readings,           \* every GPIO.input so far read the level its edge went to
    n_edges,
    \* ---- WebRTCClient as a component: connect, cleanup, the receive loop ----
    conn_pc,                 \* position of a connect() call: "idle" | "await_task" | "token" | "sdp" | "settle"
    conn_result,             \* how the last connect() call ended: "none" | "ok" | "raised"
    cl_pc,                   \* position of cleanup(): "idle" | "closing"
    cl_for,                  \* who called the running cleanup(): "call" | "connect"
    rx_tasks,                \* the _handle_incoming_audio tasks created so far
    rx_ref,                  \* index in rx_tasks of self.audio_receive_task, 0 for None
    rx_last,                 \* what the last step of a receive task did
    mic_started,             \* MicrophoneAudioTrack._started
    mic_queue,               \* MicrophoneAudioTrack.audio_queue
    captured,                \* chunks the capture callback delivered while recording and connected
    taken,                   \* chunks recv took from the queue
    ev_last,                 \* what the last send_event or send_audio call did
    n_connects,
    n_cleanups,
    n_tracks,
    n_frames,
    n_calls,
    n_chunks,
    \* ---- RateLimiter (backend/middleware/rate_limiter.py) ----
    rl_requests,             \* self.requests: the kept timestamps of every client
    rl_time,                 \* time.time() at the latest call, in ticks
    rl_accepted,             \* timestamps of every accepted call, per client
    rl_last,                 \* what the latest check_rate_limit did
    n_requests,
    \* ---- the frame conversion of the receive loop (webrtc_client.py) ----
    dm_frame,                \* the frame in hand: layout and the array of to_ndarray()
    dm_out,                  \* audio_array after the int16 branch
    dm_done                  \* the conversion has run

ctlVars == <<main_pc, loop, components, is_running, is_recording,
             current_session_active, response_text, exit_status, exit_cause,
             ready, suspended_starts, is_pressed, is_connected, peer_connection,
             data_channel, microphone_track, audio_receive_task, ephemeral_key,
             ah_is_recording, input_stream, open_inputs, transport_failed,
             n_presses, n_events,
             last>>

audVars == <<playback_queue, is_playing, output_stream, stream_active,
             open_streams, empty_callback_count, write_count, pa_pc, pa_rest,
             cb_pc, cb_chunk, cb_frames, cb_ret, device_frames, enqueued,
             played, rets, buf_lens, n_plays, run_empty, run_chunks,
             callback_faults, sample_counts, n_tests, n_stops, stop_raised>>

btnVars == <<current_time, last_state_change_time, last_state, pin, edge,
             last_event, true_readings, n_edges>>

netVars == <<conn_pc, conn_result, cl_pc, cl_for, rx_tasks, rx_ref, rx_last,
             mic_started, mic_queue, captured, taken, ev_last, n_connects,
             n_cleanups, n_tracks, n_frames, n_calls, n_chunks>>

rlVars == <<rl_requests, rl_time, rl_accepted, rl_last, n_requests>>

dmVars == <<dm_frame, dm_out, dm_done>>

extVars == <<rlVars, dmVars>>

vars == <<ctlVars, audVars, btnVars, netVars, extVars>>

flagVars == <<is_recording, current_session_active>>
rtcVars == <<is_connected, peer_connection, data_channel, microphone_track,
             audio_receive_task, ephemeral_key>>
capVars == <<ah_is_recording, input_stream, open_inputs>>
mainVars == <<main_pc, loop, components, is_running, exit_status, exit_cause>>

(***************************************************************************)
(* Bounds of the model.                                                    *)
(***************************************************************************)
MaxPresses == 2
MaxEvents == 2
MaxIdleEvents == 3
MaxEdges == 4
MaxGap == 3
MaxConnects == 2
MaxCleanups == 2
MaxTracks == 1
MaxFrames == 1
MaxCalls == 1
MaxChunks == 3
MaxRequests == 5
MaxDelay == 3
FrameSamples == 1

Deltas == {"a", "b"}

(***************************************************************************)
(* The controller's turn state, read off the two flags of VoiceClientApp.  *)
(***************************************************************************)
Turn ==
    IF is_recording THEN "Recording"
    ELSE IF current_session_active THEN "AwaitingResponse"
    ELSE "Connected"

ClosePending == \E i \in 1..Len(ready) : ready[i].co = "close"

\* a coroutine handed to run_coroutine_threadsafe; a _close_connection is
\* tagged with the turn state response.done was received in
Task(co) ==
    IF co = "close"
    THEN [co |-> co, at |-> Turn]
    ELSE [co |-> co, at |-> "none"]

\* the record kept of a step: which handler ran, the turn state it ran in,
\* the tag of the coroutine it ran, the commit messages it sent to the data
\* channel and the text it handed to the trace client
Step(op) ==
    [op |-> op, pre |-> Turn, at |-> "none", sent |-> 0, logged |-> <<>>]

Ran(op) ==
    [op |-> op, pre |-> Turn, at |-> Head(ready).at, sent |-> 0, logged |-> <<>>]

Running == main_pc # "exited"

CtlInit ==
    /\ main_pc = "init"
    /\ loop = FALSE
    /\ components = FALSE
    /\ is_running = FALSE
    /\ is_recording = FALSE
    /\ current_session_active = FALSE
    /\ response_text = <<>>
    /\ exit_status = -1
    /\ exit_cause = "none"
    /\ ready = <<>>
    /\ suspended_starts = 0
    /\ is_pressed = FALSE
    /\ is_connected = FALSE
    /\ peer_connection = FALSE
    /\ data_channel = "none"
    /\ microphone_track = FALSE
    /\ audio_receive_task = FALSE
    /\ ephemeral_key = FALSE
    /\ ah_is_recording = FALSE
    /\ input_stream = "none"
    /\ open_inputs = 0
    /\ transport_failed = FALSE
    /\ n_presses = 0
    /\ n_events = 0
    /\ last = [op |-> "init", pre |-> "Connected", at |-> "none", sent |-> 0,
               logged |-> <<>>]

(***************************************************************************)
(* Button thread: ButtonHandler._edge_callback delivers press and release  *)
(* alternately; the app callbacks only read is_recording and schedule.     *)
(***************************************************************************)
PressIgnored == is_recording

OnButtonPress ==
    /\ Running /\ components
    /\ ~is_pressed
    /\ n_presses < MaxPresses
    /\ is_pressed' = TRUE
    /\ n_presses' = n_presses + 1
    /\ ready' = IF PressIgnored \/ ~loop THEN ready ELSE Append(ready, Task("start"))
    /\ last' = Step("press")
    /\ UNCHANGED <<mainVars, flagVars, response_text, suspended_starts, rtcVars,
                   capVars, transport_failed, n_events>>
    /\ UNCHANGED <<audVars, btnVars, netVars, extVars>>

ReleaseIgnored == ~is_recording

OnButtonRelease ==
    /\ Running /\ components
    /\ is_pressed
    /\ is_pressed' = FALSE
    /\ ready' = IF ReleaseIgnored \/ ~loop THEN ready ELSE Append(ready, Task("stop"))
    /\ last' = Step("release")
    /\ UNCHANGED <<mainVars, flagVars, response_text, suspended_starts, rtcVars,
                   capVars, transport_failed, n_presses, n_events>>
    /\ UNCHANGED <<audVars, btnVars, netVars, extVars>>

(***************************************************************************)
(* Event loop: the coroutine at the head of the ready queue runs up to its *)
(* next suspension point.                                                  *)
(***************************************************************************)
StartGuardNoSession == is_recording

\* "if self.is_recording or self.current_session_active: return"
StartGuard == is_recording \/ current_session_active

\* _start_recording up to "await self.voice_trace_client.start_session()"
StartRecording ==
    /\ Running
    /\ ready # <<>> /\ Head(ready).co = "start"
    /\ last' = Ran("start")
    /\ IF StartGuard
       THEN /\ ready' = Tail(ready)
            /\ UNCHANGED <<flagVars, suspended_starts>>
       ELSE /\ is_recording' = TRUE
            /\ current_session_active' = TRUE
            /\ \E suspends \in BOOLEAN :
                 IF suspends
                 THEN /\ ready' = Tail(ready)
                      /\ suspended_starts' = suspended_starts + 1
                 ELSE /\ ready' = <<[Head(ready) EXCEPT !.co = "start_resume"]>> \o Tail(ready)
                      /\ UNCHANGED suspended_starts
    /\ UNCHANGED <<mainVars, response_text, is_pressed, rtcVars, capVars,
                   transport_failed, n_presses, n_events>>
    /\ UNCHANGED <<audVars, btnVars, netVars, extVars>>

\* start_session() completes: the suspended coroutine is ready again
WakeStart ==
    /\ Running
    /\ suspended_starts > 0
    /\ suspended_starts' = suspended_starts - 1
    /\ ready' = Append(ready, Task("start_resume"))
    /\ last' = Step("wake")
    /\ UNCHANGED <<mainVars, flagVars, response_text, is_pressed, rtcVars, capVars,
                   transport_failed, n_presses, n_events>>
    /\ UNCHANGED <<audVars, btnVars, netVars, extVars>>

\* _start_recording after the await: AudioHandler.start_recording(), and the
\* except branch when the device refuses
StartRecordingResume ==
    /\ Running
    /\ ready # <<>> /\ Head(ready).co = "start_resume"
    /\ ready' = Tail(ready)
    /\ last' = Ran("start_resume")
    /\ \E dev \in {"ok", "open_fails", "start_fails"} :
         IF ah_is_recording
         THEN UNCHANGED <<capVars, flagVars>>
         ELSE IF dev = "ok"
         THEN /\ input_stream' = "open"
              /\ open_inputs' = open_inputs + 1
              /\ ah_is_recording' = TRUE
              /\ UNCHANGED flagVars
         ELSE /\ input_stream' = IF dev = "start_fails" THEN "open" ELSE input_stream
              /\ open_inputs' = IF dev = "start_fails" THEN open_inputs + 1
                                                       ELSE open_inputs
              /\ ah_is_recording' = FALSE
              /\ is_recording' = FALSE
              /\ current_session_active' = FALSE
    /\ UNCHANGED <<mainVars, response_text, suspended_starts, is_pressed, rtcVars,
                   transport_failed, n_presses, n_events>>
    /\ UNCHANGED <<audVars, btnVars, netVars, extVars>>

SendEventAlways == TRUE

\* WebRTCClient.send_event: data_channel.send is called only on an open data
\* channel; whatever it raises is caught and logged
SendEventSends == data_channel = "open"

CommitAttempted == components /\ current_session_active

\* _stop_recording
StopRecording ==
    /\ Running
    /\ ready # <<>> /\ Head(ready).co = "stop"
    /\ ready' = Tail(ready)
    /\ is_recording' = FALSE
    /\ \E stop_ok \in BOOLEAN :
         IF ah_is_recording /\ stop_ok
         THEN /\ input_stream' = "none"
              /\ open_inputs' = IF input_stream = "open" THEN open_inputs - 1
                                                         ELSE open_inputs
              /\ ah_is_recording' = FALSE
         ELSE UNCHANGED capVars
    /\ last' = [Ran("stop") EXCEPT !.sent =
                   IF CommitAttempted /\ SendEventSends THEN 1 ELSE 0]
    /\ UNCHANGED <<mainVars, current_session_active, response_text,
                   suspended_starts, is_pressed, rtcVars, transport_failed, n_presses, n_events>>
    /\ UNCHANGED <<audVars, btnVars, netVars, extVars>>

SessionKeptOnClose == current_session_active

\* "self.current_session_active = False"
SessionAfterClose == FALSE

\* _close_connection
CloseConnection ==
    /\ Running
    /\ ready # <<>> /\ Head(ready).co = "close"
    /\ ready' = Tail(ready)
    /\ last' = Ran("close")
    /\ current_session_active' = SessionAfterClose
    /\ UNCHANGED <<mainVars, is_recording, response_text, suspended_starts,
                   is_pressed, rtcVars, capVars, transport_failed, n_presses, n_events>>
    /\ UNCHANGED <<audVars, btnVars, netVars, extVars>>

(***************************************************************************)
(* Data-channel events: WebRTCClient._handle_data_channel_message hands    *)
(* each parsed message to VoiceClientApp._on_webrtc_event on the loop.     *)
(***************************************************************************)
\* events are counted up to MaxEvents, and up to MaxIdleEvents while no press
\* has been made
EventArrives ==
    /\ Running
    /\ data_channel = "open"
    /\ n_events < (IF n_presses = 0 THEN MaxIdleEvents ELSE MaxEvents)

\* response.text.delta and response.audio_transcript.delta
OnDelta ==
    /\ EventArrives
    /\ \E d \in Deltas : response_text' = Append(response_text, d)
    /\ n_events' = n_events + 1
    /\ last' = Step("delta")
    /\ UNCHANGED <<mainVars, flagVars, ready, suspended_starts, is_pressed, rtcVars,
                   capVars, transport_failed, n_presses>>
    /\ UNCHANGED <<audVars, btnVars, netVars, extVars>>

\* response.output_item.added: the accumulator is reset for a message item
OnOutputItemAdded ==
    /\ EventArrives
    /\ \E is_message \in BOOLEAN :
         response_text' = IF is_message THEN <<>> ELSE response_text
    /\ n_events' = n_events + 1
    /\ last' = Step("output_item_added")
    /\ UNCHANGED <<mainVars, flagVars, ready, suspended_starts, is_pressed, rtcVars,
                   capVars, transport_failed, n_presses>>
    /\ UNCHANGED <<audVars, btnVars, netVars, extVars>>

DoneLogsAlways == TRUE

\* the response.done branch logs the text only when there is some
DoneLogs == response_text # <<>>

\* response.done
OnResponseDone ==
    /\ EventArrives
    /\ response_text' = <<>>
    /\ ready' = IF loop THEN Append(ready, Task("close")) ELSE ready
    /\ n_events' = n_events + 1
    /\ last' = [Step("response.done") EXCEPT
                  !.logged = IF DoneLogs THEN <<response_text>> ELSE <<>>]
    /\ UNCHANGED <<mainVars, flagVars, suspended_starts, is_pressed, rtcVars,
                   capVars, transport_failed, n_presses>>
    /\ UNCHANGED <<audVars, btnVars, netVars, extVars>>

\* error: logged, nothing else
OnError ==
    /\ EventArrives
    /\ n_events' = n_events + 1
    /\ last' = Step("error")
    /\ UNCHANGED <<mainVars, flagVars, response_text, ready, suspended_starts,
                   is_pressed, rtcVars, capVars, transport_failed, n_presses>>
    /\ UNCHANGED <<audVars, btnVars, netVars, extVars>>

(***************************************************************************)
(* The remote side: the data channel opens some time after the handshake,  *)
(* and the peer connection may fail for good.  connect() registers         *)
(* handlers for "track" and "message" only, so a failure reaches no code.  *)
(***************************************************************************)
ChannelOpens ==
    /\ Running
    /\ is_connected
    /\ data_channel = "connecting"
    /\ data_channel' = "open"
    /\ last' = Step("channel_open")
    /\ UNCHANGED <<mainVars, flagVars, response_text, ready, suspended_starts,
                   is_pressed, is_connected, peer_connection, microphone_track,
                   audio_receive_task, ephemeral_key, capVars, transport_failed,
                   n_presses, n_events>>
    /\ UNCHANGED <<audVars, btnVars, netVars, extVars>>

TransportFails ==
    /\ Running
    /\ is_connected
    /\ ~transport_failed
    /\ transport_failed' = TRUE
    /\ data_channel' = "closed"
    /\ last' = Step("transport_failed")
    /\ UNCHANGED <<mainVars, flagVars, response_text, ready, suspended_starts,
                   is_pressed, is_connected, peer_connection, microphone_track,
                   audio_receive_task, ephemeral_key, capVars, n_presses, n_events>>
    /\ UNCHANGED <<audVars, btnVars, netVars, extVars>>

(***************************************************************************)
(* main(), run(), initialize(), connect() and cleanup().                   *)
(***************************************************************************)
\* run() catches every Exception of initialize() and of its loop
RunEscapes(failed) == FALSE

\* main(): sys.exit(1) only when asyncio.run(app.run()) raises
MainExitStatus(escaped) == IF escaped THEN 1 ELSE 0

\* WebRTCClient.cleanup
WebrtcCleanup ==
    /\ is_connected' = FALSE
    /\ audio_receive_task' = FALSE
    /\ data_channel' = "none"
    /\ microphone_track' = FALSE
    /\ peer_connection' = FALSE
    /\ ephemeral_key' = FALSE

\* VoiceClientApp.cleanup, then run() returns and the process ends
Cleanup(cause, failed) ==
    /\ is_recording' = FALSE
    /\ current_session_active' = FALSE
    /\ ah_is_recording' = FALSE
    /\ input_stream' = IF ah_is_recording THEN "none" ELSE input_stream
    /\ open_inputs' = IF ah_is_recording /\ input_stream = "open"
                         THEN open_inputs - 1 ELSE open_inputs
    /\ WebrtcCleanup
    /\ ready' = <<>>
    /\ suspended_starts' = 0
    /\ main_pc' = "exited"
    /\ exit_cause' = cause
    /\ exit_status' = MainExitStatus(RunEscapes(failed))

\* initialize() up to the first await of connect()
Initialize ==
    /\ main_pc = "init"
    /\ loop' = TRUE
    /\ last' = Step("initialize")
    /\ \E config_errors \in BOOLEAN :
         IF config_errors
         THEN /\ Cleanup("config_error", TRUE)
              /\ UNCHANGED <<components, is_running>>
         ELSE /\ components' = TRUE
              /\ is_connected' = FALSE
              /\ main_pc' = "token"
              /\ UNCHANGED <<is_running, exit_status, exit_cause, flagVars, ready,
                             suspended_starts, peer_connection, data_channel,
                             microphone_track, audio_receive_task, ephemeral_key,
                             capVars>>
    /\ UNCHANGED <<response_text, is_pressed, transport_failed, n_presses, n_events>>
    /\ UNCHANGED <<audVars, btnVars, netVars, extVars>>

\* connect(): get_ephemeral_token() returns or raises
ConnectToken ==
    /\ main_pc = "token"
    /\ last' = Step("connect_token")
    /\ \E token_ok \in BOOLEAN :
         IF token_ok
         THEN /\ ephemeral_key' = TRUE
              /\ peer_connection' = TRUE
              /\ microphone_track' = TRUE
              /\ data_channel' = "connecting"
              /\ main_pc' = "sdp"
              /\ UNCHANGED <<exit_status, exit_cause, flagVars, ready,
                             suspended_starts, is_connected, audio_receive_task,
                             capVars>>
         ELSE Cleanup("connect_error", TRUE)
    /\ UNCHANGED <<loop, components, is_running, response_text, is_pressed,
                   transport_failed, n_presses, n_events>>
    /\ UNCHANGED <<audVars, btnVars, netVars, extVars>>

\* connect(): the SDP exchange succeeds or fails
ConnectSdp ==
    /\ main_pc = "sdp"
    /\ last' = Step("connect_sdp")
    /\ \E sdp_ok \in BOOLEAN :
         IF sdp_ok
         THEN /\ is_connected' = TRUE
              /\ main_pc' = "settle"
              /\ UNCHANGED <<exit_status, exit_cause, flagVars, ready,
                             suspended_starts, peer_connection, data_channel,
                             microphone_track, audio_receive_task, ephemeral_key,
                             capVars>>
         ELSE Cleanup("connect_error", TRUE)
    /\ UNCHANGED <<loop, components, is_running, response_text, is_pressed,
                   transport_failed, n_presses, n_events>>
    /\ UNCHANGED <<audVars, btnVars, netVars, extVars>>

\* connect() after its sleep: the receiver scan starts the receive task (the
\* remote audio track is part of the negotiated session); then run() sets
\* is_running
ConnectSettle ==
    /\ main_pc = "settle"
    /\ last' = Step("connect_settle")
    /\ audio_receive_task' = TRUE
    /\ is_running' = TRUE
    /\ main_pc' = "running"
    /\ UNCHANGED <<loop, components, exit_status, exit_cause, flagVars,
                   response_text, ready, suspended_starts, is_pressed, is_connected,
                   peer_connection, data_channel, microphone_track, ephemeral_key,
                   capVars, transport_failed, n_presses, n_events>>
    /\ UNCHANGED <<audVars, btnVars, netVars, extVars>>

\* signal_handler clears is_running; run()'s loop, the only reader of the
\* flag, then leaves and cleanup runs
Shutdown ==
    /\ main_pc = "running"
    /\ is_running' = FALSE
    /\ last' = Step("shutdown")
    /\ Cleanup("signal", FALSE)
    /\ UNCHANGED <<loop, components, response_text, is_pressed, transport_failed,
                   n_presses, n_events>>
    /\ UNCHANGED <<audVars, btnVars, netVars, extVars>>

(***************************************************************************)
(* AudioHandler playback.  Sizes are scaled: the configured chunk is       *)
(* ChunkFrames frames of Channels channels of FormatWidth bytes, and the   *)
(* auto-stop threshold is max_empty_callbacks callbacks.                   *)
(***************************************************************************)
ChunkFrames == 2
Channels == 1
FormatWidth == 2
max_empty_callbacks == 3
LogChunks == 10

MaxSamples == 5
MaxPlays == 2
MaxTests == 1
MaxStops == 2
ByteMod == 3

Min(a, b) == IF a < b THEN a ELSE b

Zeros(n) == [i \in 1..n |-> 0]

Take(s, n) == SubSeq(s, 1, Min(n, Len(s)))

Drop(s, n) == SubSeq(s, Min(n, Len(s)) + 1, Len(s))

\* 16-bit PCM buffers as the receive loop produces them (ndarray.tobytes of
\* an int16 array): a whole number of samples; the bytes differ by position
\* and by buffer, and some of them are zero
Buffer(samples, k) ==
    [i \in 1..(samples * FormatWidth) |-> (k + i) % ByteMod]

\* what the device layer may ask for: the configured chunk, or fewer frames
FrameCounts == {ChunkFrames, ChunkFrames - 1}

BytesNeeded(frame_count) == frame_count * Channels * FormatWidth

ExpectedChunkSize == ChunkFrames * Channels * FormatWidth

\* np.frombuffer(data, dtype=np.int16) raises on a partial sample
FromBufferRaises(data) == Len(data) % FormatWidth # 0

AudInit ==
    /\ playback_queue = <<>>
    /\ is_playing = FALSE
    /\ output_stream = "none"
    /\ stream_active = FALSE
    /\ open_streams = 0
    /\ empty_callback_count = 0
    /\ write_count = 0
    /\ pa_pc = "idle"
    /\ pa_rest = <<>>
    /\ cb_pc = "idle"
    /\ cb_chunk = <<>>
    /\ cb_frames = 0
    /\ cb_ret = [kind |-> "none", data |-> <<>>, pad |-> 0, flag |-> "none", need |-> 0]
    /\ enqueued = <<>>
    /\ played = <<>>
    /\ rets = <<>>
    /\ buf_lens = <<>>
    /\ n_plays = 0
    /\ run_empty = 0
    /\ run_chunks = 0
    /\ n_tests = 0
    /\ n_stops = 0
    /\ stop_raised = FALSE

cbVars == <<cb_pc, cb_chunk, cb_frames, cb_ret>>
paVars == <<pa_pc, pa_rest>>
streamVars == <<output_stream, stream_active, open_streams>>
countVars == <<empty_callback_count, write_count>>
histVars == <<enqueued, played, rets, buf_lens>>
runVars == <<run_empty, run_chunks>>
callVars == <<n_tests, n_stops, stop_raised>>

\* play_audio: the empty-buffer return and the numpy analysis of the buffer
PlayAudio ==
    /\ pa_pc = "idle"
    /\ n_plays < MaxPlays
    /\ n_plays' = n_plays + 1
    /\ \E samples \in sample_counts :
         LET audio_data == Buffer(samples, n_plays) IN
         IF audio_data = <<>> \/ FromBufferRaises(audio_data)
         THEN UNCHANGED <<paVars, buf_lens, enqueued>>
         ELSE /\ pa_rest' = audio_data
              /\ pa_pc' = "put"
              /\ buf_lens' = Append(buf_lens, Len(audio_data))
              /\ enqueued' = enqueued \o audio_data
    /\ UNCHANGED <<playback_queue, is_playing, streamVars, countVars, cbVars,
                   device_frames, played, rets, runVars, callback_faults, sample_counts, callVars>>
    /\ UNCHANGED <<ctlVars, btnVars, netVars, extVars>>

NextChunkShort(rest) == Take(rest, ExpectedChunkSize - FormatWidth)

\* "chunk = audio_data[offset:offset + expected_chunk_size]"
NextChunk(rest) == Take(rest, ExpectedChunkSize)

\* play_audio: one turn of the splitting loop
PlayAudioPut ==
    /\ pa_pc = "put"
    /\ LET chunk == NextChunk(pa_rest) IN
         /\ playback_queue' = Append(playback_queue, chunk)
         /\ pa_rest' = Drop(pa_rest, Len(chunk))
         /\ pa_pc' = IF Len(pa_rest) > Len(chunk) THEN "put" ELSE "check"
    /\ UNCHANGED <<is_playing, streamVars, countVars, cbVars, device_frames,
                   histVars, n_plays, runVars, callback_faults, sample_counts, callVars>>
    /\ UNCHANGED <<ctlVars, btnVars, netVars, extVars>>

\* play_audio: "if not self.is_playing: self._start_playback()", up to
\* start_stream(); the device may refuse to open
PlayAudioCheck ==
    /\ pa_pc = "check"
    /\ IF is_playing
       THEN /\ pa_pc' = "idle"
            /\ UNCHANGED <<is_playing, streamVars, runVars>>
       ELSE \E open_ok \in BOOLEAN :
              IF open_ok
              THEN /\ output_stream' = "open"
                   /\ open_streams' = open_streams + 1
                   /\ stream_active' = TRUE
                   /\ run_empty' = 0
                   /\ run_chunks' = 0
                   /\ pa_pc' = "opened"
                   /\ UNCHANGED is_playing
              ELSE /\ is_playing' = FALSE
                   /\ pa_pc' = "idle"
                   /\ UNCHANGED <<streamVars, runVars>>
    /\ UNCHANGED <<playback_queue, pa_rest, countVars, cbVars, device_frames,
                   histVars, n_plays, callback_faults, sample_counts, callVars>>
    /\ UNCHANGED <<ctlVars, btnVars, netVars, extVars>>

\* _start_playback after start_stream(): counters reset, is_playing set
PlayAudioStarted ==
    /\ pa_pc = "opened"
    /\ empty_callback_count' = 0
    /\ write_count' = 0
    /\ is_playing' = TRUE
    /\ pa_pc' = "idle"
    /\ UNCHANGED <<playback_queue, pa_rest, streamVars, cbVars, device_frames,
                   histVars, n_plays, runVars, callback_faults, sample_counts, callVars>>
    /\ UNCHANGED <<ctlVars, btnVars, netVars, extVars>>

\* test_playback up to its first sleep: "if not self.is_playing:
\* self._start_playback()" on whatever the queue holds; the tone follows as a
\* play_audio call
TestPlayback ==
    /\ pa_pc = "idle"
    /\ n_tests < MaxTests
    /\ n_tests' = n_tests + 1
    /\ IF is_playing
       THEN UNCHANGED <<pa_pc, is_playing, streamVars, runVars>>
       ELSE \E open_ok \in BOOLEAN :
              IF open_ok
              THEN /\ output_stream' = "open"
                   /\ open_streams' = open_streams + 1
                   /\ stream_active' = TRUE
                   /\ run_empty' = 0
                   /\ run_chunks' = 0
                   /\ pa_pc' = "opened"
                   /\ UNCHANGED is_playing
              ELSE /\ is_playing' = FALSE
                   /\ UNCHANGED <<pa_pc, streamVars, runVars>>
    /\ UNCHANGED <<playback_queue, pa_rest, countVars, cbVars, device_frames,
                   histVars, n_plays, callback_faults, sample_counts, n_stops,
                   stop_raised>>
    /\ UNCHANGED <<ctlVars, btnVars, netVars, extVars>>

\* _output_callback: the device asks for frame_count frames; get_nowait()
\* either takes the head of the queue or raises queue.Empty
OutputCallbackGet ==
    /\ stream_active
    /\ cb_pc = "idle"
    /\ playback_queue # <<>> \/ empty_callback_count <= max_empty_callbacks
    /\ \E frame_count \in device_frames : cb_frames' = frame_count
    /\ IF playback_queue # <<>>
       THEN /\ cb_chunk' = Head(playback_queue)
            /\ playback_queue' = Tail(playback_queue)
            /\ empty_callback_count' = 0
            /\ run_empty' = 0
            /\ run_chunks' = run_chunks + 1
            /\ cb_pc' = "got"
       ELSE /\ empty_callback_count' = empty_callback_count + 1
            /\ run_empty' = run_empty + 1
            /\ cb_pc' = "empty"
            /\ UNCHANGED <<cb_chunk, playback_queue, run_chunks>>
    /\ UNCHANGED <<is_playing, streamVars, write_count, paVars, cb_ret,
                   device_frames, histVars, n_plays, callback_faults, sample_counts, callVars>>
    /\ UNCHANGED <<ctlVars, btnVars, netVars, extVars>>

FittedNonZeroPad(data, bytes_needed) ==
    IF Len(data) < bytes_needed
    THEN data \o [i \in 1..(bytes_needed - Len(data)) |-> 1]
    ELSE Take(data, bytes_needed)

\* the size check of a dequeued chunk: short chunks are padded with zero
\* bytes, long ones cut, and the cut-off part is put() on the queue
Fitted(data, bytes_needed) ==
    IF Len(data) < bytes_needed
    THEN data \o Zeros(bytes_needed - Len(data))
    ELSE Take(data, bytes_needed)

Remainder(data, bytes_needed) == Drop(data, bytes_needed)

Requeue(q, remainder) == IF Len(remainder) > 0 THEN Append(q, remainder) ELSE q

ErrorReturnNothing(bytes_needed) == <<>>

\* the except branch: "silence = b'\x00' * bytes_needed"
ErrorReturn(bytes_needed) == Zeros(bytes_needed)

\* what the try block can do with a chunk in hand: np.frombuffer raises on a
\* partial sample while the first chunks are logged, and any statement may
\* raise when the callback is run under faults
CallbackRaises(data) ==
    IF write_count < LogChunks /\ FromBufferRaises(data) THEN {TRUE}
    ELSE IF callback_faults THEN BOOLEAN
    ELSE {FALSE}

\* _output_callback with a chunk in hand
OutputCallbackPlay ==
    /\ cb_pc = "got"
    /\ cb_pc' = "idle"
    /\ cb_chunk' = <<>>
    /\ \E raised \in CallbackRaises(cb_chunk) :
       LET bytes_needed == BytesNeeded(cb_frames) IN
         IF raised
         THEN /\ cb_ret' = [kind |-> "error", data |-> ErrorReturn(bytes_needed),
                            pad |-> bytes_needed, flag |-> "continue",
                            need |-> bytes_needed]
              /\ UNCHANGED <<playback_queue, write_count, played, rets>>
         ELSE /\ cb_ret' = [kind |-> "chunk", data |-> Fitted(cb_chunk, bytes_needed),
                            pad |-> bytes_needed - Min(Len(cb_chunk), bytes_needed),
                            flag |-> "continue", need |-> bytes_needed]
              /\ playback_queue' = Requeue(playback_queue, Remainder(cb_chunk, bytes_needed))
              /\ write_count' = write_count + 1
              /\ played' = played \o Take(cb_chunk, bytes_needed)
              /\ rets' = Append(rets, <<Len(Fitted(cb_chunk, bytes_needed)),
                                        bytes_needed - Min(Len(cb_chunk), bytes_needed)>>)
    /\ UNCHANGED <<is_playing, streamVars, empty_callback_count, paVars, cb_frames,
                   device_frames, enqueued, buf_lens, n_plays, runVars,
                   callback_faults, sample_counts, callVars>>
    /\ UNCHANGED <<ctlVars, btnVars, netVars, extVars>>

AutoStop == empty_callback_count >= max_empty_callbacks /\ write_count > 0

\* _output_callback on queue.Empty: silence, or auto-stop with
\* (None, paComplete)
OutputCallbackEmpty ==
    /\ cb_pc = "empty"
    /\ cb_pc' = "idle"
    /\ LET bytes_needed == BytesNeeded(cb_frames) IN
         IF AutoStop
         THEN /\ is_playing' = FALSE
              /\ stream_active' = FALSE
              /\ cb_ret' = [kind |-> "stop", data |-> <<>>, pad |-> 0,
                            flag |-> "complete", need |-> bytes_needed]
         ELSE /\ cb_ret' = [kind |-> "silence", data |-> Zeros(bytes_needed),
                            pad |-> bytes_needed, flag |-> "continue",
                            need |-> bytes_needed]
              /\ UNCHANGED <<is_playing, stream_active>>
    /\ UNCHANGED <<playback_queue, output_stream, open_streams, countVars, paVars,
                   cb_chunk, cb_frames, device_frames, histVars, n_plays, runVars,
                   callback_faults, sample_counts, callVars>>
    /\ UNCHANGED <<ctlVars, btnVars, netVars, extVars>>

\* "while not self.playback_queue.empty(): self.playback_queue.get_nowait()"
QueueAfterStop == <<>>

\* stop_playback and _stop_playback; stop_stream() returns once the callback
\* in flight has returned.  When stop_stream() or close() raises, the rest of
\* the try block is skipped and the error is logged.
StopPlayback ==
    /\ pa_pc = "idle"
    /\ cb_pc = "idle"
    /\ n_stops < MaxStops
    /\ n_stops' = n_stops + 1
    /\ is_playing' = FALSE
    /\ \E dev \in {"ok", "stop_raises", "close_raises"} :
         IF output_stream = "open" /\ dev # "ok"
         THEN /\ stop_raised' = TRUE
              /\ stream_active' = IF dev = "close_raises" THEN FALSE ELSE stream_active
              /\ UNCHANGED <<output_stream, open_streams, countVars, playback_queue,
                             histVars, runVars>>
         ELSE /\ stop_raised' = FALSE
              /\ output_stream' = "none"
              /\ stream_active' = FALSE
              /\ open_streams' = IF output_stream = "open" THEN open_streams - 1
                                                          ELSE open_streams
              /\ empty_callback_count' = 0
              /\ write_count' = 0
              /\ playback_queue' = QueueAfterStop
              /\ enqueued' = <<>>
              /\ played' = <<>>
              /\ rets' = <<>>
              /\ buf_lens' = <<>>
              /\ run_empty' = 0
              /\ run_chunks' = 0
    /\ UNCHANGED <<paVars, cbVars, device_frames, n_plays, callback_faults,
                   sample_counts, n_tests>>
    /\ UNCHANGED <<ctlVars, btnVars, netVars, extVars>>

(***************************************************************************)
(* ButtonHandler._edge_callback, one step per raw edge the GPIO layer      *)
(* delivers.  Time is counted in ticks of half the debounce window.        *)
(***************************************************************************)

\* DEBOUNCE_TIME = 0.05, in ticks of 25 ms
DEBOUNCE_TIME == 2

\* ButtonHandler.__init__; time.time() at the first edge is far more than
\* DEBOUNCE_TIME after last_state_change_time = 0.0
ButtonInit ==
    /\ current_time = DEBOUNCE_TIME
    /\ last_state_change_time = 0
    /\ last_state = "HIGH"
    /\ pin = "HIGH"
    /\ edge = [gap |-> 0, level |-> "HIGH", accepted |-> FALSE, read |-> "none",
               event |-> "none"]
    /\ last_event = "none"
    /\ true_readings = TRUE
    /\ n_edges = 0

NeverDebounced(now) == FALSE

\* "if current_time - self.last_state_change_time < self.DEBOUNCE_TIME: return"
Debounced(now) == now - last_state_change_time < DEBOUNCE_TIME

EdgeEventOnLevel(current_state) == IF current_state = "LOW" THEN "press" ELSE "release"

\* which of on_press / on_release an accepted edge calls
EdgeEvent(current_state) ==
    IF current_state = "LOW" /\ last_state = "HIGH"
    THEN IF ~is_pressed THEN "press" ELSE "none"
    ELSE IF current_state = "HIGH" /\ last_state = "LOW"
    THEN IF is_pressed THEN "release" ELSE "none"
    ELSE "none"

\* _edge_callback; on_press and on_release are the callbacks of VoiceClientApp
EdgeCallback ==
    /\ n_edges < MaxEdges
    /\ n_edges' = n_edges + 1
    /\ pin' = IF pin = "HIGH" THEN "LOW" ELSE "HIGH"
    /\ \E gap \in 1..MaxGap, current_state \in {"LOW", "HIGH"} :
         LET now == current_time + gap IN
         /\ current_time' = now
         /\ IF Debounced(now)
            THEN /\ edge' = [gap |-> gap, level |-> pin', accepted |-> FALSE,
                             read |-> "none", event |-> "none"]
                 /\ UNCHANGED <<last_state_change_time, last_state, is_pressed,
                                last_event, true_readings, ready>>
            ELSE LET event == EdgeEvent(current_state) IN
                 /\ last_state_change_time' = now
                 /\ is_pressed' = IF event = "press" THEN TRUE
                                  ELSE IF event = "release" THEN FALSE
                                  ELSE is_pressed
                 /\ ready' = IF event = "press" /\ ~PressIgnored /\ loop
                                THEN Append(ready, Task("start"))
                             ELSE IF event = "release" /\ ~ReleaseIgnored /\ loop
                                THEN Append(ready, Task("stop"))
                             ELSE ready
                 /\ last_event' = IF event = "none" THEN last_event ELSE event
                 /\ last_state' = current_state
                 /\ true_readings' = (true_readings /\ current_state = pin')
                 /\ edge' = [gap |-> gap, level |-> pin', accepted |-> TRUE,
                             read |-> current_state, event |-> event]
    /\ UNCHANGED <<mainVars, flagVars, response_text, suspended_starts, rtcVars,
                   capVars, transport_failed, n_presses, n_events, last>>
    /\ UNCHANGED <<audVars, netVars, extVars>>

(***************************************************************************)
(* WebRTCClient as a component.  connect() and cleanup() are called one    *)
(* after the other by the owner of the client; track events, frames,       *)
(* timeouts and the calls of send_event and send_audio interleave with     *)
(* them at their awaits.  Every _handle_incoming_audio task is a record:   *)
(*   pc        "new" (created, not yet run) | "wait" | "recv" | "done"     *)
(*   cancelled Task.cancel() was called and has not been delivered yet     *)
(*   frames    frame_count, counted up to 1                                *)
(*   timeouts  timeout_count                                               *)
(*   waits     wait_count                                                  *)
(*   exit      why the coroutine returned                                  *)
(***************************************************************************)

\* "max_timeouts = 10 if frame_count == 0 else 5"
FirstFrameTimeouts == 10
LaterTimeouts == 5

\* "while not self.is_connected and wait_count < 10"
ConnectWaits == 10

appVars == <<mainVars, flagVars, response_text, ready, suspended_starts,
             is_pressed, capVars, transport_failed, n_presses, n_events, last>>

rxVars == <<rx_tasks, rx_ref, rx_last>>
micVars == <<mic_started, mic_queue, captured, taken>>
callVarsNet == <<conn_pc, conn_result, cl_pc, cl_for>>
netCounts == <<n_connects, n_cleanups, n_tracks, n_frames, n_calls, n_chunks>>

\* WebRTCClient.__init__ and the absence of a MicrophoneAudioTrack
NetInit ==
    /\ conn_pc = "idle"
    /\ conn_result = "none"
    /\ cl_pc = "idle"
    /\ cl_for = "call"
    /\ rx_tasks = <<>>
    /\ rx_ref = 0
    /\ rx_last = [what |-> "none", connected |-> FALSE, forwarded |-> FALSE]
    /\ mic_started = FALSE
    /\ mic_queue = <<>>
    /\ captured = <<>>
    /\ taken = <<>>
    /\ ev_last = [op |-> "none", sent |-> FALSE, raised |-> FALSE, queued |-> FALSE,
                  connected |-> FALSE, channel |-> "none"]
    /\ n_connects = 0
    /\ n_cleanups = 0
    /\ n_tracks = 0
    /\ n_frames = 0
    /\ n_calls = 0
    /\ n_chunks = 0

\* asyncio.create_task(self._handle_incoming_audio(track))
NewTask ==
    [pc |-> "new", cancelled |-> FALSE, frames |-> 0, timeouts |-> 0, waits |-> 0,
     exit |-> "none"]

\* the coroutine has returned: its locals are gone
Done(why) ==
    [pc |-> "done", cancelled |-> FALSE, frames |-> 0, timeouts |-> 0, waits |-> 0,
     exit |-> why]

LiveTasks == {i \in 1..Len(rx_tasks) : rx_tasks[i].pc # "done"}

NotCancelled(tasks, i) == tasks

\* Task.cancel(): a no-op on a task that is done
Cancelled(tasks, i) ==
    IF i # 0 /\ tasks[i].pc # "done" THEN [tasks EXCEPT ![i].cancelled = TRUE]
    ELSE tasks

\* the loop runs the callbacks that are ready, the delivery of a
\* cancellation among them, before it resumes anything that waits for the
\* network or for a timer
CancelPending == \E i \in LiveTasks : rx_tasks[i].cancelled

StartTask ==
    /\ rx_tasks' = Append(rx_tasks, NewTask)
    /\ rx_ref' = Len(rx_tasks) + 1
    /\ audio_receive_task' = TRUE

\* cleanup() up to "await asyncio.wait_for(self.peer_connection.close(), ...)",
\* or to its end when there is no peer connection
CleanupBegin(who) ==
    /\ is_connected' = FALSE
    /\ rx_tasks' = Cancelled(rx_tasks, rx_ref)
    /\ rx_ref' = 0
    /\ audio_receive_task' = FALSE
    /\ data_channel' = "none"
    /\ microphone_track' = FALSE
    /\ mic_started' = FALSE
    /\ mic_queue' = <<>>
    /\ UNCHANGED peer_connection
    /\ IF peer_connection
       THEN /\ cl_pc' = "closing"
            /\ cl_for' = who
            /\ UNCHANGED ephemeral_key
       ELSE /\ ephemeral_key' = FALSE
            /\ UNCHANGED <<cl_pc, cl_for>>

ConnectFailsBare ==
    /\ conn_pc' = "idle"
    /\ conn_result' = "raised"
    /\ UNCHANGED <<rtcVars, cl_pc, cl_for, rx_tasks, rx_ref, mic_started, mic_queue>>

\* connect() raises out of its try block: "await self.cleanup(); raise"
ConnectFails ==
    /\ CleanupBegin("connect")
    /\ conn_pc' = IF peer_connection THEN "cleanup" ELSE "idle"
    /\ conn_result' = IF peer_connection THEN conn_result ELSE "raised"

\* connect() up to its first await
RtcConnect ==
    /\ conn_pc = "idle" /\ cl_pc = "idle"
    /\ n_connects < MaxConnects
    /\ n_connects' = n_connects + 1
    /\ conn_result' = "none"
    /\ IF audio_receive_task
       THEN /\ rx_tasks' = Cancelled(rx_tasks, rx_ref)
            /\ IF rx_tasks[rx_ref].pc = "done"
               THEN /\ audio_receive_task' = FALSE
                    /\ rx_ref' = 0
                    /\ is_connected' = FALSE
                    /\ conn_pc' = "token"
               ELSE /\ conn_pc' = "await_task"
                    /\ UNCHANGED <<audio_receive_task, rx_ref, is_connected>>
       ELSE /\ is_connected' = FALSE
            /\ conn_pc' = "token"
            /\ UNCHANGED <<audio_receive_task, rx_tasks, rx_ref>>
    /\ UNCHANGED <<peer_connection, data_channel, microphone_track, ephemeral_key,
                   cl_pc, cl_for, rx_last, micVars, ev_last, n_cleanups, n_tracks,
                   n_frames, n_calls, n_chunks>>
    /\ UNCHANGED <<appVars, audVars, btnVars, extVars>>

\* connect(): "await self.audio_receive_task" returns, the task being done
RtcTaskAwaited ==
    /\ conn_pc = "await_task"
    /\ rx_tasks[rx_ref].pc = "done"
    /\ audio_receive_task' = FALSE
    /\ rx_ref' = 0
    /\ is_connected' = FALSE
    /\ conn_pc' = "token"
    /\ UNCHANGED <<peer_connection, data_channel, microphone_track, ephemeral_key,
                   conn_result, cl_pc, cl_for, rx_tasks, rx_last, micVars, ev_last,
                   netCounts>>
    /\ UNCHANGED <<appVars, audVars, btnVars, extVars>>

\* get_ephemeral_token() returns the secret or raises: on a response that is
\* not 200, on a body without client_secret.value, on a transport error.
\* With the secret the peer connection, the microphone track and the data
\* channel are created and the offer is posted
RtcToken ==
    /\ conn_pc = "token"
    /\ ~CancelPending
    /\ \E answer \in {"secret", "not_200", "no_secret", "unreachable"} :
         IF answer = "secret"
         THEN /\ ephemeral_key' = TRUE
              /\ peer_connection' = TRUE
              /\ microphone_track' = TRUE
              /\ mic_started' = TRUE
              /\ mic_queue' = <<>>
              /\ data_channel' = "connecting"
              /\ conn_pc' = "sdp"
              /\ UNCHANGED <<is_connected, audio_receive_task, conn_result, cl_pc,
                             cl_for, rx_tasks, rx_ref>>
         ELSE ConnectFails
    /\ UNCHANGED <<rx_last, captured, taken, ev_last, netCounts>>
    /\ UNCHANGED <<appVars, audVars, btnVars, extVars>>

\* the SDP exchange: an answer with status 200 or 201 is applied and
\* is_connected is set, anything else raises
RtcSdp ==
    /\ conn_pc = "sdp"
    /\ ~CancelPending
    /\ \E sdp_ok \in BOOLEAN :
         IF sdp_ok
         THEN /\ is_connected' = TRUE
              /\ conn_pc' = "settle"
              /\ UNCHANGED <<peer_connection, data_channel, microphone_track,
                             audio_receive_task, ephemeral_key, conn_result, cl_pc,
                             cl_for, rx_tasks, rx_ref, mic_started, mic_queue>>
         ELSE ConnectFails
    /\ UNCHANGED <<rx_last, captured, taken, ev_last, netCounts>>
    /\ UNCHANGED <<appVars, audVars, btnVars, extVars>>

ScanStartsTaskAlways == TRUE

\* "if receiver.track.kind == "audio" and not self.audio_receive_task"
ScanStartsTask == ~audio_receive_task

\* connect() after "await asyncio.sleep(0.1)": the scan of the receivers
RtcSettle ==
    /\ conn_pc = "settle"
    /\ ~CancelPending
    /\ conn_pc' = "idle"
    /\ conn_result' = "ok"
    /\ \E audio_receiver \in BOOLEAN :
         IF audio_receiver /\ ScanStartsTask
         THEN StartTask
         ELSE UNCHANGED <<audio_receive_task, rx_tasks, rx_ref>>
    /\ UNCHANGED <<is_connected, peer_connection, data_channel, microphone_track,
                   ephemeral_key, cl_pc, cl_for, rx_last, micVars, ev_last, netCounts>>
    /\ UNCHANGED <<appVars, audVars, btnVars, extVars>>

\* "if self.is_connected and not self.audio_receive_task"
TrackStartsTask == is_connected /\ ~audio_receive_task

\* the "track" handler registered on the peer connection
OnTrack ==
    /\ peer_connection
    /\ ~CancelPending
    /\ n_tracks < MaxTracks
    /\ n_tracks' = n_tracks + 1
    /\ \E kind \in {"audio", "video"} :
         IF kind = "audio" /\ TrackStartsTask
         THEN StartTask
         ELSE UNCHANGED <<audio_receive_task, rx_tasks, rx_ref>>
    /\ UNCHANGED <<is_connected, peer_connection, data_channel, microphone_track,
                   ephemeral_key, callVarsNet, rx_last, micVars, ev_last, n_connects,
                   n_cleanups, n_frames, n_calls, n_chunks>>
    /\ UNCHANGED <<appVars, audVars, btnVars, extVars>>

\* cleanup() called by the owner of the client
RtcCleanup ==
    /\ conn_pc = "idle" /\ cl_pc = "idle"
    /\ n_cleanups < MaxCleanups
    /\ n_cleanups' = n_cleanups + 1
    /\ CleanupBegin("call")
    /\ UNCHANGED <<conn_pc, conn_result, rx_last, captured, taken, ev_last,
                   n_connects, n_tracks, n_frames, n_calls, n_chunks>>
    /\ UNCHANGED <<appVars, audVars, btnVars, extVars>>

\* cleanup() after peer_connection.close() returned, timed out or raised
RtcCleanupEnd ==
    /\ cl_pc = "closing"
    /\ ~CancelPending
    /\ cl_pc' = "idle"
    /\ peer_connection' = FALSE
    /\ ephemeral_key' = FALSE
    /\ IF cl_for = "connect"
       THEN conn_pc' = "idle" /\ conn_result' = "raised"
       ELSE UNCHANGED <<conn_pc, conn_result>>
    /\ UNCHANGED <<is_connected, data_channel, microphone_track, audio_receive_task,
                   cl_for, rxVars, micVars, ev_last, netCounts>>
    /\ UNCHANGED <<appVars, audVars, btnVars, extVars>>

MaxTimeoutsFlat(frame_count) == FirstFrameTimeouts

MaxTimeouts(frame_count) == IF frame_count = 0 THEN FirstFrameTimeouts ELSE LaterTimeouts

\* "while self.is_connected:" and the await of track.recv() under it
LoopTop(t) ==
    IF is_connected THEN [t EXCEPT !.pc = "recv"]
    ELSE Done("disconnected")

\* a frame in hand is handed to on_audio_received whenever the callback is set
ForwardsFrame == TRUE

\* one resumption of a _handle_incoming_audio task
RxStep(i) ==
    /\ i \in LiveTasks
    /\ LET t == rx_tasks[i] IN
       IF t.cancelled
       THEN \* CancelledError is raised at the await the task is suspended in
            /\ rx_tasks' = [rx_tasks EXCEPT ![i] = Done("cancelled")]
            /\ rx_last' = [what |-> "cancelled", connected |-> is_connected,
                           forwarded |-> FALSE]
            /\ UNCHANGED n_frames
       ELSE IF t.pc = "new"
       THEN /\ rx_tasks' = [rx_tasks EXCEPT ![i] =
                               IF is_connected THEN LoopTop(t)
                               ELSE [t EXCEPT !.pc = "wait"]]
            /\ rx_last' = [what |-> "started", connected |-> is_connected,
                           forwarded |-> FALSE]
            /\ UNCHANGED n_frames
       ELSE IF t.pc = "wait"
       THEN /\ rx_tasks' = [rx_tasks EXCEPT ![i] =
                               IF is_connected THEN LoopTop([t EXCEPT !.waits = @ + 1])
                               ELSE IF t.waits + 1 < ConnectWaits
                               THEN [t EXCEPT !.waits = @ + 1]
                               ELSE Done("never_connected")]
            /\ rx_last' = [what |-> "waited", connected |-> is_connected,
                           forwarded |-> FALSE]
            /\ UNCHANGED n_frames
       ELSE \E outcome \in {"frame", "timeout", "track_ended"} :
              IF outcome = "frame"
              THEN /\ n_frames < MaxFrames
                   /\ n_frames' = n_frames + 1
                   /\ rx_tasks' = [rx_tasks EXCEPT ![i] =
                                      LoopTop([t EXCEPT !.timeouts = 0, !.frames = 1])]
                   /\ rx_last' = [what |-> "frame",
                                  connected |-> is_connected,
                                  forwarded |-> ForwardsFrame]
              ELSE IF outcome = "timeout"
              THEN /\ rx_tasks' = [rx_tasks EXCEPT ![i] =
                                      IF t.timeouts + 1 >= MaxTimeouts(t.frames)
                                      THEN Done("timeouts")
                                      ELSE LoopTop([t EXCEPT !.timeouts = @ + 1])]
                   /\ rx_last' = [what |-> "timeout",
                                  connected |-> is_connected, forwarded |-> FALSE]
                   /\ UNCHANGED n_frames
              ELSE /\ rx_tasks' = [rx_tasks EXCEPT ![i] = Done("error")]
                   /\ rx_last' = [what |-> "track_ended",
                                  connected |-> is_connected, forwarded |-> FALSE]
                   /\ UNCHANGED n_frames
    /\ UNCHANGED <<rtcVars, callVarsNet, rx_ref, micVars, ev_last, n_connects,
                   n_cleanups, n_tracks, n_calls, n_chunks>>
    /\ UNCHANGED <<appVars, audVars, btnVars, extVars>>

RxSteps == \E i \in 1..Len(rx_tasks) : RxStep(i)

\* send_event: the message goes out when the channel is open and
\* data_channel.send does not raise; nothing is raised to the caller
SendEvent ==
    /\ n_calls < MaxCalls
    /\ n_calls' = n_calls + 1
    /\ \E send_ok \in BOOLEAN :
         ev_last' = [op |-> "send_event", sent |-> (SendEventSends /\ send_ok),
                     raised |-> FALSE, queued |-> FALSE, connected |-> is_connected,
                     channel |-> data_channel]
    /\ UNCHANGED <<rtcVars, callVarsNet, rxVars, micVars, n_connects, n_cleanups,
                   n_tracks, n_frames, n_chunks>>
    /\ UNCHANGED <<appVars, audVars, btnVars, extVars>>

SendAudioUngated == microphone_track /\ mic_started

\* send_audio: "if self.microphone_track and self.is_connected", then
\* add_audio_data: "if self._started"
SendAudioPuts == microphone_track /\ is_connected /\ mic_started

AddAudioDataFront(q, chunk) == <<chunk>> \o q

\* "self.audio_queue.put_nowait(audio_data)"
AddAudioData(q, chunk) == Append(q, chunk)

\* send_audio called on the client
SendAudio ==
    /\ n_calls < MaxCalls
    /\ n_calls' = n_calls + 1
    /\ mic_queue' = IF SendAudioPuts THEN AddAudioData(mic_queue, n_calls + 1)
                                     ELSE mic_queue
    /\ ev_last' = [op |-> "send_audio", sent |-> FALSE, raised |-> FALSE,
                   queued |-> SendAudioPuts, connected |-> is_connected,
                   channel |-> data_channel]
    /\ UNCHANGED <<rtcVars, callVarsNet, rxVars, mic_started, captured, taken,
                   n_connects, n_cleanups, n_tracks, n_frames, n_chunks>>
    /\ UNCHANGED <<appVars, audVars, btnVars, extVars>>

\* AudioHandler._input_callback on the capture thread, through
\* VoiceClientApp._on_audio_data to send_audio
InputCallback ==
    /\ open_inputs > 0
    /\ n_chunks < MaxChunks
    /\ n_chunks' = n_chunks + 1
    /\ captured' = IF is_recording /\ is_connected THEN Append(captured, n_chunks + 1)
                                                   ELSE captured
    /\ mic_queue' = IF components /\ is_recording /\ SendAudioPuts
                       THEN AddAudioData(mic_queue, n_chunks + 1)
                       ELSE mic_queue
    /\ UNCHANGED <<rtcVars, callVarsNet, rxVars, mic_started, taken, ev_last,
                   n_connects, n_cleanups, n_tracks, n_frames, n_calls>>
    /\ UNCHANGED <<appVars, audVars, btnVars, extVars>>

\* MicrophoneAudioTrack.recv with a chunk in the queue
TrackRecv ==
    /\ microphone_track
    /\ mic_queue # <<>>
    /\ taken' = Append(taken, Head(mic_queue))
    /\ mic_queue' = Tail(mic_queue)
    /\ UNCHANGED <<rtcVars, callVarsNet, rxVars, mic_started, captured, ev_last,
                   netCounts>>
    /\ UNCHANGED <<appVars, audVars, btnVars, extVars>>

(***************************************************************************)
(* RateLimiter of the backend.  Time is counted in ticks of a third of the *)
(* window, and the limit is scaled to requests_per_minute calls.           *)
(***************************************************************************)
Clients == {"a", "b"}

\* "rate_limiter = RateLimiter(requests_per_minute=15)", scaled
requests_per_minute == 2

\* "self.window_seconds = 60", in ticks of 20 s
window_seconds == 3

\* RateLimiter.__init__: "self.requests = defaultdict(list)"
RlInit ==
    /\ rl_requests = [c \in Clients |-> <<>>]
    /\ rl_time = 0
    /\ rl_accepted = [c \in Clients |-> <<>>]
    /\ rl_last = [client |-> "none", status |-> 0, time |-> 0]
    /\ n_requests = 0

\* _cleanup_old_requests: "[ts for ts in ... if ts > cutoff]"
CleanupOldRequests(reqs, now) ==
    LET cutoff == now - window_seconds
        Keep(ts) == ts > cutoff
    IN  SelectSeq(reqs, Keep)

LimitReachedLate(reqs) == Len(reqs) > requests_per_minute

\* "if len(self.requests[client_ip]) >= self.requests_per_minute"
LimitReached(reqs) == Len(reqs) >= requests_per_minute

\* check_rate_limit for a request of one client, time.time() having moved
\* on by delay ticks since the call before
CheckRateLimit ==
    /\ n_requests < MaxRequests
    /\ n_requests' = n_requests + 1
    /\ \E client_ip \in Clients, delay \in 0..MaxDelay :
         LET now == rl_time + delay
             kept == CleanupOldRequests(rl_requests[client_ip], now)
         IN  /\ rl_time' = now
             /\ IF LimitReached(kept)
                THEN /\ rl_requests' = [rl_requests EXCEPT ![client_ip] = kept]
                     /\ rl_last' = [client |-> client_ip, status |-> 429,
                                    time |-> now]
                     /\ UNCHANGED rl_accepted
                ELSE /\ rl_requests' = [rl_requests EXCEPT ![client_ip] =
                                           Append(kept, now)]
                     /\ rl_accepted' = [rl_accepted EXCEPT ![client_ip] =
                                           Append(@, now)]
                     /\ rl_last' = [client |-> client_ip, status |-> 200,
                                    time |-> now]
    /\ UNCHANGED <<ctlVars, audVars, btnVars, netVars, dmVars>>

(***************************************************************************)
(* The int16 branch of the frame conversion in _handle_incoming_audio.     *)
(* Samples are 16-bit; the sum is formed in 32 bits.                       *)
(***************************************************************************)
Int16Min == -32768
Int16Max == 32767

\* sample values at and next to the ends of the range and around zero
SampleValues == {Int16Min, Int16Min + 1, -1, 0, 1, Int16Max}

\* ndarray.astype(np.int16): the value modulo 2^16
ToInt16(x) == ((x + 32768) % 65536) - 32768

\* astype(np.int32) of an int16 array: every int16 value is an int32 value,
\* and the sum of two of them lies within -65536..65534, far inside 32 bits
ToInt32(x) == x

\* np.clip(x, lo, hi)
Clip(x, lo, hi) == IF x < lo THEN lo ELSE IF x > hi THEN hi ELSE x

SumNarrow(l, r) == ToInt16(l + r)

\* "np.clip(array[0].astype(np.int32) + array[1].astype(np.int32),
\*          -32768, 32767).astype(np.int16)", one sample
SumAndClip(l, r) ==
    ToInt16(Clip(ToInt32(l) + ToInt32(r), Int16Min, Int16Max))

Rows(n, len) == [1..n -> [1..len -> SampleValues]]

\* what frame.to_ndarray() gives for s16p and s16 frames: one row per channel
\* of a planar frame, one row of interleaved samples of a packed one
Frames ==
    {[stereo |-> TRUE, samples |-> FrameSamples, array |-> a] :
        a \in Rows(2, FrameSamples)}
    \cup {[stereo |-> TRUE, samples |-> FrameSamples, array |-> a] :
        a \in Rows(1, 2 * FrameSamples)}
    \cup {[stereo |-> FALSE, samples |-> FrameSamples, array |-> a] :
        a \in Rows(1, FrameSamples)}

\* "array.reshape(2, frame.samples)" of a 1 x 2n array
Reshape(array, n) == <<SubSeq(array[1], 1, n), SubSeq(array[1], n + 1, 2 * n)>>

\* the int16 branch: audio_array from array
Int16Branch(frame) ==
    IF frame.stereo /\ Channels = 1
    THEN LET array == IF Len(frame.array) = 1
                         /\ Len(frame.array[1]) = frame.samples * 2
                      THEN Reshape(frame.array, frame.samples)
                      ELSE frame.array
         IN  IF Len(array) = 2
             THEN [i \in 1..Len(array[1]) |-> SumAndClip(array[1][i], array[2][i])]
             ELSE array[1]
    ELSE frame.array[1]

DmInit ==
    /\ dm_frame = [stereo |-> FALSE, samples |-> 0, array |-> <<<<>>>>]
    /\ dm_out = <<>>
    /\ dm_done = FALSE

\* a frame with an int16 array reaches "elif array.dtype == np.int16"
ConvertFrame ==
    /\ ~dm_done
    /\ dm_done' = TRUE
    /\ dm_out' = Int16Branch(dm_frame)
    /\ UNCHANGED dm_frame
    /\ UNCHANGED <<ctlVars, audVars, btnVars, netVars, rlVars>>

\* the buffers of every length up to MaxSamples samples
AllBuffers == 0..MaxSamples

\* the empty buffer, half a chunk, one chunk and one and a half chunks
ShortBuffers == {0} \cup {(k * ChunkFrames) \div 2 : k \in 1..3}

\* the empty buffer and one whole chunk
OneChunk == {0, ChunkFrames}

Init ==
    /\ CtlInit /\ AudInit /\ ButtonInit /\ NetInit /\ RlInit /\ DmInit
    /\ device_frames = {ChunkFrames}
    /\ callback_faults = FALSE
    /\ sample_counts = AllBuffers

Next ==
    \/ OnButtonPress
    \/ OnButtonRelease
    \/ StartRecording
    \/ WakeStart
    \/ StartRecordingResume
    \/ StopRecording
    \/ CloseConnection
    \/ OnDelta
    \/ OnOutputItemAdded
    \/ OnResponseDone
    \/ OnError
    \/ ChannelOpens
    \/ TransportFails
    \/ Initialize
    \/ ConnectToken
    \/ ConnectSdp
    \/ ConnectSettle
    \/ Shutdown

Spec == Init /\ [][Next]_vars

\* play_audio on the receive-loop side and the callback on the audio thread
NextPlay ==
    \/ PlayAudio
    \/ PlayAudioPut
    \/ PlayAudioCheck
    \/ PlayAudioStarted
    \/ OutputCallbackGet
    \/ OutputCallbackPlay
    \/ OutputCallbackEmpty

NextAudio ==
    \/ NextPlay
    \/ TestPlayback
    \/ StopPlayback

\* the callback under every frame count the device layer may ask for, and
\* with statements of its body raising
InitAudio ==
    /\ CtlInit /\ AudInit /\ ButtonInit /\ NetInit /\ RlInit /\ DmInit
    /\ device_frames = FrameCounts
    /\ callback_faults = FALSE
    /\ sample_counts = ShortBuffers

SpecAudio == InitAudio /\ [][NextPlay]_vars

\* a host that may make the try block of the callback raise, asking for the
\* configured chunk or for less, on buffers of one chunk
InitFaults ==
    /\ CtlInit /\ AudInit /\ ButtonInit /\ NetInit /\ RlInit /\ DmInit
    /\ device_frames = FrameCounts
    /\ callback_faults = TRUE
    /\ sample_counts = OneChunk

SpecFaults == InitFaults /\ [][NextPlay]_vars

\* the stream as _start_playback opens it: frames_per_buffer = chunk_size, so
\* every callback asks for exactly the configured chunk
InitReslice ==
    /\ CtlInit /\ AudInit /\ ButtonInit /\ NetInit /\ RlInit /\ DmInit
    /\ device_frames = {ChunkFrames}
    /\ callback_faults = FALSE
    /\ sample_counts = AllBuffers

SpecReslice == InitReslice /\ [][NextPlay]_vars

\* starting and stopping playback: play_audio, test_playback, stop_playback
\* and the callback, on buffers of one chunk
InitLifecycle ==
    /\ CtlInit /\ AudInit /\ ButtonInit /\ NetInit /\ RlInit /\ DmInit
    /\ device_frames = {ChunkFrames}
    /\ callback_faults = FALSE
    /\ sample_counts = OneChunk

SpecLifecycle == InitLifecycle /\ [][NextAudio]_vars

\* the button thread alone
NextButton == EdgeCallback

SpecButton == Init /\ [][NextButton]_vars

\* the transport client driven by its owner and by the network, with
\* send_audio called at any moment
NextRtc ==
    \/ RtcConnect
    \/ RtcTaskAwaited
    \/ RtcToken
    \/ RtcSdp
    \/ RtcSettle
    \/ OnTrack
    \/ RtcCleanup
    \/ RtcCleanupEnd
    \/ RxSteps
    \/ SendAudio

SpecRtc == Init /\ [][NextRtc]_vars

\* the transport client and its data channel, with send_event called at any
\* moment
NextEvents ==
    \/ RtcConnect
    \/ RtcTaskAwaited
    \/ RtcToken
    \/ RtcSdp
    \/ RtcSettle
    \/ RtcCleanup
    \/ RtcCleanupEnd
    \/ RxSteps
    \/ ChannelOpens
    \/ SendEvent

SpecEvents == Init /\ [][NextEvents]_vars

\* connections and their receive loops; a task that can run is run by the
\* event loop, and each of its awaits ends with a frame, with a timeout of
\* wait_for or sleep, or with an error
NextRx ==
    \/ RtcConnect
    \/ RtcTaskAwaited
    \/ RtcToken
    \/ RtcSdp
    \/ RtcSettle
    \/ OnTrack
    \/ RtcCleanup
    \/ RtcCleanupEnd
    \/ RxSteps

\* the application after initialize(): connect() has returned, run() is in
\* its loop, nothing has been pressed yet
InitMic ==
    /\ AudInit /\ ButtonInit /\ RlInit /\ DmInit
    /\ device_frames = {ChunkFrames}
    /\ callback_faults = FALSE
    /\ sample_counts = AllBuffers
    /\ main_pc = "running"
    /\ loop = TRUE
    /\ components = TRUE
    /\ is_running = TRUE
    /\ is_recording = FALSE
    /\ current_session_active = FALSE
    /\ response_text = <<>>
    /\ exit_status = -1
    /\ exit_cause = "none"
    /\ ready = <<>>
    /\ suspended_starts = 0
    /\ is_pressed = FALSE
    /\ is_connected = TRUE
    /\ peer_connection = TRUE
    /\ data_channel = "connecting"
    /\ microphone_track = TRUE
    /\ audio_receive_task = FALSE
    /\ ephemeral_key = TRUE
    /\ ah_is_recording = FALSE
    /\ input_stream = "none"
    /\ open_inputs = 0
    /\ transport_failed = FALSE
    /\ n_presses = 0
    /\ n_events = 0
    /\ last = [op |-> "init", pre |-> "Connected", at |-> "none", sent |-> 0,
               logged |-> <<>>]
    /\ conn_pc = "idle"
    /\ conn_result = "ok"
    /\ cl_pc = "idle"
    /\ cl_for = "call"
    /\ rx_tasks = <<>>
    /\ rx_ref = 0
    /\ rx_last = [what |-> "none", connected |-> FALSE, forwarded |-> FALSE]
    /\ mic_started = TRUE
    /\ mic_queue = <<>>
    /\ captured = <<>>
    /\ taken = <<>>
    /\ ev_last = [op |-> "none", sent |-> FALSE, raised |-> FALSE, queued |-> FALSE,
                  connected |-> FALSE, channel |-> "none"]
    /\ n_connects = 1
    /\ n_cleanups = 0
    /\ n_tracks = 0
    /\ n_frames = 0
    /\ n_calls = 0
    /\ n_chunks = 0

\* turns of the controller with the capture thread and the sender of the
\* microphone track running beside them
NextMic ==
    \/ OnButtonPress
    \/ OnButtonRelease
    \/ StartRecording
    \/ WakeStart
    \/ StartRecordingResume
    \/ StopRecording
    \/ InputCallback
    \/ TrackRecv
    \/ RtcCleanup
    \/ RtcCleanupEnd

SpecMic == InitMic /\ [][NextMic]_vars

\* the rate limiter called for any client at any later moment
SpecRateLimit == Init /\ [][CheckRateLimit]_vars

\* the conversion applied to every frame of the sample values
InitDownmix ==
    /\ CtlInit /\ AudInit /\ ButtonInit /\ NetInit /\ RlInit
    /\ device_frames = {ChunkFrames}
    /\ callback_faults = FALSE
    /\ sample_counts = AllBuffers
    /\ dm_frame \in Frames
    /\ dm_out = <<>>
    /\ dm_done = FALSE

SpecDownmix == InitDownmix /\ [][ConvertFrame]_vars

SpecRxFair == Init /\ [][NextRx]_vars /\ WF_vars(RxSteps)

(***************************************************************************)
(* Properties of the session controller, checked under Spec.               *)
(***************************************************************************)

\* C1: turns never overlap.  is_recording becomes true only in the step of
\* _start_recording that found both is_recording and current_session_active
\* false, and a press handled while either flag is set (by the button
\* callback or by the coroutine it scheduled) leaves is_recording,
\* current_session_active and the capture stream as they were.
C1_TurnsNeverOverlap ==
    [][ /\ (is_recording' /\ ~is_recording)
            => (last'.op = "start" /\ ~current_session_active)
        /\ (last'.op \in {"press", "start"} /\ Turn # "Connected")
            => UNCHANGED <<flagVars, capVars>> ]_vars

\* a press whose coroutine ran while the previous turn was still awaiting its
\* response, and was dropped
C1_Witness ==
    /\ last.op = "start"
    /\ last.pre = "AwaitingResponse"
    /\ Turn = "AwaitingResponse"

\* C2: a release while Recording leaves the controller in AwaitingResponse:
\* capture stopped, one input_audio_buffer.commit sent, transport still up,
\* current_session_active still true.
C2_ReleaseCommits ==
    (last.op = "stop" /\ last.pre = "Recording" /\ main_pc = "running"
        /\ data_channel = "open")
        => /\ last.sent = 1
           /\ Turn = "AwaitingResponse"
           /\ is_connected /\ peer_connection

C4_DoneOutsideAwaitingIgnored ==
    [][ (last'.op = "close" /\ last'.at # "AwaitingResponse" /\ main_pc = "running")
            => UNCHANGED flagVars ]_vars

\* C5: an error event received during a turn ends the turn: the controller
\* is in Connected, or on its way there, once the handler returns.
C5_ErrorEndsTurn ==
    (last.op = "error" /\ last.pre \in {"Recording", "AwaitingResponse"}
        /\ main_pc = "running")
        => (Turn = "Connected" \/ ClosePending)

\* C6: once the transport has failed for good the controller is
\* Disconnected: not connected, no turn, no capture.
C6_TransportFailureDisconnects ==
    (transport_failed /\ main_pc = "running")
        => /\ ~is_connected
           /\ Turn = "Connected"
           /\ ~ah_is_recording

\* C7: a configuration error or a failed connect ends the process with a
\* non-zero exit status, after cleanup.
C7_StartupFailureExitsNonZero ==
    (main_pc = "exited" /\ exit_cause \in {"config_error", "connect_error"})
        => (exit_status > 0 /\ ~is_connected /\ ~peer_connection)

(***************************************************************************)
(* Properties of playback, checked under SpecReslice.                      *)
(***************************************************************************)

\* C8: whatever branch the output callback takes (chunk, silence, the error
\* handler, the invocation on which auto-stop fires) it returns exactly
\* frame_count * channels * format_width bytes.
C8_CallbackReturnsRequestedBytes ==
    (cb_ret.kind # "none" /\ pa_pc = "idle") => Len(cb_ret.data) = cb_ret.need

\* C9: re-slicing preserves the bytes.  The bytes returned to the device,
\* padding left out, are at every moment the leading bytes of the buffers
\* play_audio took, in order, and all of them once the queue has drained;
\* the padding of a returned chunk is zero bytes after the real ones, and
\* only the last chunk of a buffer of N bytes is padded, by C - N mod C
\* bytes, when N mod C # 0.
C9_ReslicePreservesBytes ==
    LET C == ExpectedChunkSize
        RECURSIVE ExpectedPads(_)
        ExpectedPads(lens) ==
            IF lens = <<>> THEN <<>>
            ELSE LET n == Head(lens)
                     k == (n + C - 1) \div C
                 IN  [i \in 1..k |-> IF i = k THEN (C - (n % C)) % C ELSE 0]
                         \o ExpectedPads(Tail(lens))
        real == cb_ret.need - cb_ret.pad
    IN  /\ played = Take(enqueued, Len(played))
        /\ (playback_queue = <<>> /\ cb_pc = "idle" /\ pa_pc # "put")
              => played = enqueued
        /\ Len(rets) <= Len(ExpectedPads(buf_lens))
        /\ \A j \in 1..Len(rets) : rets[j][2] = ExpectedPads(buf_lens)[j]
        /\ (cb_ret.kind = "chunk" /\ rets # <<>>)
              => /\ Take(cb_ret.data, real)
                      = SubSeq(played, Len(played) - real + 1, Len(played))
                 /\ \A i \in (real + 1)..cb_ret.need : cb_ret.data[i] = 0

\* a buffer of two and a half chunks has been played to its end, the last
\* chunk padded by half a chunk
C9_Witness ==
    /\ buf_lens = <<(5 * ExpectedChunkSize) \div 2>>
    /\ playback_queue = <<>> /\ cb_pc = "idle" /\ pa_pc = "idle"
    /\ played = enqueued
    /\ cb_ret.kind = "chunk"
    /\ cb_ret.pad = ExpectedChunkSize \div 2

\* C10: a buffer of N bytes costs ceil(N / C) real dequeues, each returning
\* C bytes, and N bytes of it reach the device; a buffer of 2.5 C is
\* returned as C, C and half a chunk padded to C.
C10_CeilDequeues ==
    LET C == ExpectedChunkSize
        RECURSIVE SumCeil(_)
        SumCeil(lens) ==
            IF lens = <<>> THEN 0
            ELSE (Head(lens) + C - 1) \div C + SumCeil(Tail(lens))
        RECURSIVE Sum(_)
        Sum(lens) == IF lens = <<>> THEN 0 ELSE Head(lens) + Sum(Tail(lens))
        drained == playback_queue = <<>> /\ cb_pc = "idle" /\ pa_pc # "put"
    IN  /\ \A j \in 1..Len(rets) : rets[j][1] = C
        /\ Len(rets) <= SumCeil(buf_lens)
        /\ drained => /\ Len(rets) = SumCeil(buf_lens)
                      /\ Len(played) = Sum(buf_lens)
        /\ (drained /\ buf_lens = <<(5 * C) \div 2>>)
              => rets = << <<C, 0>>, <<C, 0>>, <<C, C \div 2>> >>

\* the third and last dequeue of a buffer of two and a half chunks
C10_Witness ==
    /\ buf_lens = <<(5 * ExpectedChunkSize) \div 2>>
    /\ playback_queue = <<>> /\ cb_pc = "idle" /\ pa_pc = "idle"
    /\ Len(rets) = 3
    /\ Len(played) = (5 * ExpectedChunkSize) \div 2

(***************************************************************************)
(* Properties of playback, checked under SpecAudio.                        *)
(***************************************************************************)

\* C11: the jitter buffer is strictly FIFO.  The bytes returned to the
\* device, padding left out, are at every moment the leading bytes of what
\* play_audio took, in the order it took them; this includes the callback
\* that takes a chunk longer than it was asked for while other chunks wait:
\* the cut-off remainder is played before every chunk enqueued after it.
C11_StrictFifo ==
    played = Take(enqueued, Len(played))

(***************************************************************************)
(* Properties of the auto-stop, checked under SpecReslice and              *)
(* SpecLifecycle.                                                          *)
(***************************************************************************)

\* C12: between callbacks the empty-callback counter equals the number of
\* consecutive empty-queue callbacks of the stream since its last real
\* dequeue, and a stream that has dequeued a real chunk stops on exactly the
\* max_empty_callbacks-th of them: it is not running after that many, and
\* when it has stopped it has seen exactly that many.
C12_AutoStopOnTthEmpty ==
    /\ (stream_active /\ cb_pc = "idle" /\ pa_pc = "idle")
          => empty_callback_count = run_empty
    /\ (stream_active /\ cb_pc = "idle" /\ run_chunks > 0)
          => run_empty < max_empty_callbacks
    /\ (cb_ret.kind = "stop" /\ ~stream_active)
          => run_empty = max_empty_callbacks

\* C13: auto-stop never fires on a stream that has not dequeued a real
\* chunk: every empty callback of such a stream returns silence and the
\* stream goes on.  Stated for the runs without a stop_playback call, where
\* at most one stream is delivering callbacks.
C13_NoAutoStopBeforeFirstChunk ==
    [][ (cb_pc = "empty" /\ cb_pc' = "idle" /\ run_chunks = 0 /\ n_stops = 0)
            => /\ cb_ret'.kind = "silence"
               /\ cb_ret'.flag = "continue"
               /\ stream_active' ]_vars

\* C14: when play_audio returns after queueing a non-empty buffer, playback
\* is active: is_playing is set and the output stream is running, whether
\* the call found playback already marked as playing or started it (a
\* device that refuses to open the stream makes the call raise instead).
C14_PlayAudioLeavesPlaybackActive ==
    [][ (/\ pa_pc' = "idle"
         /\ \/ pa_pc = "opened"
            \/ pa_pc = "check" /\ is_playing)
            => (is_playing' /\ stream_active') ]_vars

(***************************************************************************)
(* stop_playback, checked under SpecLifecycle.                             *)
(***************************************************************************)

\* C15: every stop_playback call raises nothing and leaves is_playing
\* false, the queue empty, no output stream and both counters at zero; and
\* a call that finds playback already stopped or never started changes
\* nothing.
C15_StopPlaybackIdempotent ==
    [][ (n_stops' = n_stops + 1)
            => /\ ~is_playing'
               /\ playback_queue' = <<>>
               /\ output_stream' = "none"
               /\ ~stream_active'
               /\ empty_callback_count' = 0
               /\ write_count' = 0
               /\ (/\ playback_queue = <<>>
                   /\ output_stream = "none"
                   /\ ~is_playing
                   /\ empty_callback_count = 0
                   /\ write_count = 0)
                     => UNCHANGED <<playback_queue, streamVars, is_playing,
                                    countVars>> ]_vars

(***************************************************************************)
(* The capture lifecycle, checked under Spec.                              *)
(***************************************************************************)

\* C16: the capture lifecycle is idempotent.  start_recording on a handler
\* that is recording and stop_recording on a handler that is not recording
\* change nothing, and at most one input stream is open at any time.
C16_CaptureIdempotent ==
    [][ /\ open_inputs' <= 1
        /\ (last'.op = "start_resume" /\ ready' = Tail(ready) /\ ah_is_recording)
              => UNCHANGED capVars
        /\ (/\ ready # <<>>
            /\ Head(ready).co = "stop"
            /\ ready' = Tail(ready)
            /\ ~ah_is_recording)
              => UNCHANGED capVars ]_vars

(***************************************************************************)
(* The error path of the output callback, checked under SpecFaults, where  *)
(* the try block may raise in any callback that has a chunk in hand.       *)
(***************************************************************************)

C18_EdgeInsideWindowDiscarded ==
    [][ (/\ n_edges' = n_edges + 1
         /\ current_time' - last_state_change_time < DEBOUNCE_TIME)
            => /\ edge'.event = "none"
               /\ ~edge'.accepted
               /\ UNCHANGED <<is_pressed, last_state, last_state_change_time,
                              last_event, ready>> ]_vars

\* the release edge of a bounce was discarded while the button is held as
\* pressed
C18_Witness ==
    /\ ~edge.accepted
    /\ edge.gap < DEBOUNCE_TIME
    /\ edge.level = "HIGH"
    /\ is_pressed
    /\ last_event = "press"

\* C19: a raw edge that arrives further than the debounce window after the
\* raw edge before it produces a logical event, also when an earlier edge
\* was discarded.  Stated for the runs in which every reading of the pin
\* gives the level its edge went to.
C19_SpacedEdgesProduceEvents ==
    [][ (/\ n_edges' = n_edges + 1
         /\ current_time' - current_time > DEBOUNCE_TIME
         /\ true_readings')
            => (edge'.accepted /\ edge'.event # "none") ]_vars

\* C20: on_press is called only at an accepted edge where the pin reads
\* pressed and the previous accepted level was released, on_release only at
\* an accepted edge where the pin reads released and the previous accepted
\* level was pressed, and the two alternate, starting with on_press.
C20_EventsAlternate ==
    [][ (n_edges' = n_edges + 1)
            => /\ edge'.event = "press"
                     => /\ edge'.accepted
                        /\ edge'.read = "LOW"
                        /\ last_state = "HIGH"
                        /\ last_event \in {"none", "release"}
               /\ edge'.event = "release"
                     => /\ edge'.accepted
                        /\ edge'.read = "HIGH"
                        /\ last_state = "LOW"
                        /\ last_event = "press" ]_vars

\* a press and a release were delivered with a discarded edge and a repeated
\* reading among the raw edges
C20_Witness ==
    /\ last_event = "release"
    /\ edge.event = "release"
    /\ n_edges = MaxEdges

(***************************************************************************)
(* The transcript accumulator, checked under Spec.                         *)
(***************************************************************************)

C29_FailedCommitEndsTurn ==
    (/\ last.op = "stop"
     /\ last.pre = "Recording"
     /\ last.sent = 0
     /\ transport_failed
     /\ main_pc = "running")
        => (Turn = "Connected" \/ ClosePending)

\* C30: a failure to open the capture stream is not fatal.  When
\* start_recording raises without having opened a stream, the handler is
\* not recording and holds no input stream, and the controller is back in
\* Connected with is_recording and current_session_active both false and
\* the application still running.
C30_OpenFailureNotFatal ==
    [][ (/\ last'.op = "start_resume"
         /\ ready # <<>> /\ Head(ready).co = "start_resume"
         /\ ready' = Tail(ready)
         /\ ~ah_is_recording /\ ~ah_is_recording'
         /\ open_inputs' = open_inputs)
            => /\ input_stream' = "none"
               /\ ~is_recording' /\ ~current_session_active'
               /\ main_pc' = main_pc /\ is_running' = is_running ]_vars


\* the client after cleanup(): nothing of a connection is left
Cleared ==
    /\ ~is_connected
    /\ ~audio_receive_task
    /\ data_channel = "none"
    /\ ~microphone_track
    /\ ~peer_connection
    /\ ~ephemeral_key

\* C24: send_event on a client whose data channel is absent or not open
\* sends nothing, raises nothing and changes no state of the client; a send
\* goes out only on an open channel, and a failing send is not raised either
C24_SendEventNoOp ==
    [][ (n_calls' = n_calls + 1 /\ ev_last'.op = "send_event")
            => /\ data_channel # "open" => ~ev_last'.sent
               /\ ~ev_last'.raised
               /\ UNCHANGED <<rtcVars, callVarsNet, rxVars, micVars>> ]_vars

C24_Witness ==
    /\ ev_last.op = "send_event"
    /\ ev_last.channel = "connecting"
    /\ ~ev_last.sent

C25_CleanupClearsAndIsIdempotent ==
    [][ /\ (\/ (n_cleanups' = n_cleanups + 1 /\ cl_pc' = "idle")
            \/ (cl_pc = "closing" /\ cl_pc' = "idle" /\ cl_for = "call"))
           => /\ Cleared'
              /\ rx_ref' = 0
              /\ \A i \in 1..Len(rx_tasks') :
                    rx_tasks'[i].pc = "done" \/ rx_tasks'[i].cancelled
        /\ (n_cleanups' = n_cleanups + 1 /\ Cleared)
           => /\ cl_pc' = "idle"
              /\ UNCHANGED <<rtcVars, callVarsNet, rx_tasks, rx_ref, micVars>> ]_vars

C25_Witness ==
    /\ n_cleanups = 2
    /\ cl_pc = "idle"
    /\ Cleared
    /\ conn_result = "ok"
    /\ \E i \in 1..Len(rx_tasks) : rx_tasks[i].exit = "cancelled"

\* C26: a credential answer that is not 200 or carries no secret, an
\* unreachable credential service or a failed SDP exchange ends connect()
\* with an exception, after a cleanup; once connect() has raised, the client
\* is not connected and holds no receive task, data channel, microphone
\* track or peer connection
C26_FailedConnectCleansUp ==
    /\ [][ /\ (conn_pc \in {"token", "sdp"} /\ conn_pc' \notin {conn_pc, "sdp", "settle"})
              => \/ conn_pc' = "cleanup" /\ cl_pc' = "closing" /\ cl_for' = "connect"
                 \/ conn_pc' = "idle" /\ conn_result' = "raised"
           /\ (conn_pc = "cleanup" /\ conn_pc' # "cleanup")
              => conn_pc' = "idle" /\ conn_result' = "raised" ]_vars
    /\ [](conn_result = "raised" => (Cleared /\ conn_pc = "idle" /\ cl_pc = "idle"))

C26_Witness ==
    /\ conn_result = "raised"
    /\ n_connects = 2
    /\ \E i \in 1..Len(rx_tasks) : rx_tasks[i].exit = "cancelled"

\* C21: no receive loop is created while another one is still running:
\* connect() goes on to the credential request only when the task of the
\* previous connection is done and forgotten, and neither the track handler
\* nor the scan of the receivers starts a second task
C21_OneReceiveLoop ==
    /\ [](Cardinality(LiveTasks) <= 1)
    /\ [][ /\ Len(rx_tasks') > Len(rx_tasks) => LiveTasks = {} /\ ~audio_receive_task
           /\ (conn_pc # "token" /\ conn_pc' = "token")
              => ~audio_receive_task' /\ rx_ref' = 0 /\ LiveTasks' = {} ]_vars

C21_Witness ==
    /\ Len(rx_tasks) = 2
    /\ rx_tasks[1].exit = "cancelled"
    /\ rx_tasks[2].pc = "recv"
    /\ n_connects = 2
    /\ n_tracks = 1

\* C23: a running receive loop has counted fewer than 10 consecutive
\* timeouts while it has received no frame and fewer than 5 once it has; the
\* timeout that completes the count makes the coroutine return normally, and
\* no other timeout ends it; a received frame sets the count back to 0; a
\* timeout changes nothing of the controller or of playback; and every
\* receive loop ends once frames have stopped arriving
C23_ReceiveLoopTerminates ==
    /\ [](\A i \in LiveTasks :
             rx_tasks[i].timeouts < (IF rx_tasks[i].frames = 0 THEN 10 ELSE 5))
    /\ [][ \A i \in LiveTasks :
             /\ (/\ rx_tasks[i].pc = "recv" /\ ~rx_tasks[i].cancelled
                 /\ rx_tasks'[i] # rx_tasks[i] /\ ~rx_tasks'[i].cancelled
                 /\ n_frames' = n_frames /\ rx_tasks'[i].exit # "error")
                => /\ (rx_tasks[i].timeouts + 1
                          >= (IF rx_tasks[i].frames = 0 THEN 10 ELSE 5))
                      <=> (rx_tasks'[i].pc = "done" /\ rx_tasks'[i].exit = "timeouts")
                   /\ rx_tasks'[i].pc # "done"
                      => rx_tasks'[i].timeouts = rx_tasks[i].timeouts + 1
                   /\ UNCHANGED <<appVars, audVars>>
             /\ (n_frames' = n_frames + 1 /\ rx_tasks[i].pc = "recv")
                => rx_tasks'[i].timeouts = 0 ]_vars
    /\ <>[](LiveTasks = {})

C23_Witness ==
    /\ rx_last.what = "timeout"
    /\ n_frames = 1
    /\ \E i \in 1..Len(rx_tasks) : rx_tasks[i].exit = "timeouts"
    /\ \E i \in LiveTasks : rx_tasks[i].frames = 1 /\ rx_tasks[i].timeouts = 4

\* C27: the chunks recv has taken from the queue of the microphone track
\* are, in the same order and each once, the first of the chunks the capture
\* callback delivered while the controller was recording and the client
\* connected
C27_OutboundInCaptureOrder ==
    /\ Len(taken) <= Len(captured)
    /\ SubSeq(captured, 1, Len(taken)) = taken
    /\ \A i, j \in 1..Len(taken) : i < j => taken[i] < taken[j]

C27_Witness ==
    /\ Len(taken) = 2
    /\ Len(captured) = 2
    /\ n_chunks = 3
    /\ n_presses = 2

\* C32: the capture stream is started only while the controller is
\* recording: no step takes AudioHandler.is_recording from false to true
\* with VoiceClientApp.is_recording false
C32_CaptureOnlyWhileRecording ==
    [][ (~ah_is_recording /\ ah_is_recording') => is_recording' ]_vars

\* C33: while the controller is recording and the button is up, a
\* _stop_recording is waiting on the event loop
C33_ReleaseNeverLost ==
    (is_recording /\ ~is_pressed) => \E i \in 1..Len(ready) : ready[i].co = "stop"

\* C34: while the client is connected, outside connect() and cleanup(), and
\* a receive loop was started on a remote audio track that has not ended,
\* that receive loop is still running
C34_ReceiveLoopRunsWhileConnected ==
    (/\ is_connected /\ conn_pc = "idle" /\ cl_pc = "idle"
     /\ rx_ref # 0 /\ rx_tasks[rx_ref].exit # "error")
        => rx_tasks[rx_ref].pc # "done"

\* C35: when a callback auto-stops the stream, the playback queue is empty
\* or a play_audio call that has still to look at is_playing is under way,
\* so that no chunk waits on the queue of a stopped stream
C35_NoChunkStranded ==
    [][ (cb_pc = "empty" /\ cb_pc' = "idle" /\ cb_ret'.kind = "stop")
            => (playback_queue' = <<>> \/ pa_pc' \in {"put", "check"}) ]_vars

\* C36: at most one output stream is open at the device layer
C36_OneOutputStream == open_streams <= 1

\* C37: a running stream that has dequeued a chunk, seen between callbacks
\* and outside play_audio, has write_count > 0
C37_WriteCountCountsPlayedChunks ==
    (stream_active /\ cb_pc = "idle" /\ pa_pc = "idle" /\ run_chunks > 0)
        => write_count > 0

\* C38: after every raw edge the handler has dealt with, is_pressed is true
\* exactly when the pin is at the pressed level.  Stated for the runs in
\* which every reading of the pin gives the level its edge went to.
C38_LogicalStateTracksPin ==
    true_readings => (is_pressed <=> pin = "LOW")

(***************************************************************************)
(* The rate limiter, checked under SpecRateLimit.                          *)
(***************************************************************************)

\* C39: of the calls a client had accepted, any requests_per_minute + 1 in
\* a row span at least the window, so that no window (t - 60 s, t] holds
\* more than requests_per_minute of them; a rejected call adds no timestamp,
\* and a call is rejected only when requests_per_minute accepted calls of
\* the same client lie in the window that ends at it; a call changes
\* nothing that is kept for another client
C39_SlidingWindowLimit ==
    /\ [](\A c \in Clients :
            \A i \in 1..Len(rl_accepted[c]) :
               (i + requests_per_minute <= Len(rl_accepted[c]))
                  => rl_accepted[c][i + requests_per_minute] - rl_accepted[c][i]
                        >= window_seconds)
    /\ [][ (n_requests' = n_requests + 1)
             => /\ rl_last'.status = 429
                   => /\ rl_accepted' = rl_accepted
                      /\ Len(rl_requests'[rl_last'.client])
                            <= Len(rl_requests[rl_last'.client])
                      /\ Cardinality({i \in 1..Len(rl_accepted[rl_last'.client]) :
                            rl_accepted[rl_last'.client][i]
                               > rl_time' - window_seconds}) >= requests_per_minute
                /\ \A c \in Clients \ {rl_last'.client} :
                      /\ rl_requests'[c] = rl_requests[c]
                      /\ rl_accepted'[c] = rl_accepted[c] ]_vars

C39_Witness ==
    /\ rl_last.status = 429
    /\ Len(rl_accepted[rl_last.client]) = requests_per_minute + 1
    /\ \A c \in Clients : rl_accepted[c] # <<>>

(***************************************************************************)
(* The stereo downmix, checked under SpecDownmix.                          *)
(***************************************************************************)

\* C31: every sample of the downmix of a planar stereo int16 frame is
\* min(32767, max(-32768, l + r)) of the two channel samples, with l + r
\* the sum of the integers
C31_SumAndClipDownmix ==
    (dm_done /\ dm_frame.stereo /\ Len(dm_frame.array) = 2)
        => /\ Len(dm_out) = dm_frame.samples
           /\ \A i \in 1..Len(dm_out) :
                LET sum == dm_frame.array[1][i] + dm_frame.array[2][i]
                IN  dm_out[i] = (IF sum > 32767 THEN 32767
                                 ELSE IF sum < -32768 THEN -32768 ELSE sum)

C31_Witness ==
    /\ dm_done
    /\ dm_frame.stereo /\ Len(dm_frame.array) = 2
    /\ dm_frame.array[1][1] = 32767 /\ dm_frame.array[2][1] = 32767
    /\ dm_out[1] = 32767

====
